---------------------------- MODULE Spec2Model ----------------------------
(***************************************************************************)
(* A model of the traffic simulator: the TrafficSimulator component (map   *)
(* and 3D overlay synchronisation, per-frame vehicle motion, resource      *)
(* lifecycle, road fetch and display) and the /api/roads route handlers.   *)
(*                                                                         *)
(* Units.  Latitudes and longitudes are integers on a grid of one fifth of *)
(* a vehicle's speed (speed 0.0001 degree = 5 units) whose origin is       *)
(* latitude 0, longitude 0; the world is scaled down so that the initial   *)
(* view lies a few steps from the origin and a pan can put an edge of the  *)
(* viewport on it.  Headings are indices into a table of twelve            *)
(* angles whose cosine and sine are exact multiples of 1/5 (the axes and   *)
(* the 3-4-5 directions); the table is closed under adding pi, which is    *)
(* six table steps.  Scene coordinates are in tenths of a scene unit, so   *)
(* the factor 0.1 of latLngToWorld is the identity on the stored numbers.  *)
(***************************************************************************)
EXTENDS Integers, Sequences, FiniteSets, TLC

(***************************************************************************)
(* Bounds of the model.                                                    *)
(***************************************************************************)
NumVehicles == 2
MaxFrames == 3
MaxMapEvents == 2
MaxFetches == 2
MaxCoord == 2

(***************************************************************************)
(* Program constants.                                                      *)
(***************************************************************************)
Speed == 5
TrigScale == 5
HalfTurn == 6
FullTurn == 12

Undefined == "undefined"

VARIABLES
  phase,        \* "initial" | "mounted" | "unmounted": the effect's lifetime
  map,          \* the Leaflet map: centre, pixels per unit (zoom), container size
  engine,       \* the Babylon engine: render size, render loop running
  vehicles,     \* the vehicles array of the effect closure
  bounds,       \* React state `bounds`: <<north, south, east, west>>, <<>> when unset
  listeners,    \* callbacks registered on the map and the window
  acquired,     \* resources in the order the effect created them
  released,     \* resources in the order the cleanup released them
  frames,       \* render frames produced so far
  mapEvents,    \* pan / zoom / resize events delivered so far
  hist,         \* per vehicle: where its current straight run began, its length,
                \* and where and under which view its last frame began
  isLoadingRoads,   \* React state
  roadData,         \* React state: the roads of the last successful response
  roadsLayerGroup,  \* React state: the layer group last added to the map
  mapLayers,        \* the road layer groups the map currently shows
  inflight,         \* road fetches awaiting their response, with their closures
  alerts,           \* alert() calls so far
  requests,         \* POST /api/roads requests sent by the component so far
  lastResult,       \* "idle" | "displayed" | "error": how the last fetch ended
  lastOk,           \* the last successful response: its fetch, its roads, what it
                    \* replaced, and the upstream elements it was made from
  apiIn,            \* route handlers: the request values and the upstream's behaviour
  postOut,          \* route handlers: what POST answered for apiIn
  getOut            \* route handlers: what GET answered for apiIn

simVars == <<phase, map, engine, vehicles, bounds, listeners, acquired,
             released, frames, mapEvents, hist>>

fetchVars == <<isLoadingRoads, roadData, roadsLayerGroup, mapLayers, inflight,
               alerts, requests, lastResult, lastOk>>

apiVars == <<apiIn, postOut, getOut>>

vars == <<simVars, fetchVars, apiVars>>

(***************************************************************************)
(* The map widget (Leaflet), seen through the calls the component makes.   *)
(***************************************************************************)
Sizes == { [x |-> 24, y |-> 16], [x |-> 16, y |-> 16] }
Zooms == {1, 2}
InitialCentre == [lat |-> 12, lng |-> 16]
PanStep == 4
Centres == { [lat |-> a, lng |-> b] :
               a \in {InitialCentre.lat, InitialCentre.lat - PanStep},
               b \in {InitialCentre.lng, InitialCentre.lng - PanStep} }

\* map.getSize()
getSize(m) == m.size

\* map.latLngToContainerPoint([lat, lng])
latLngToContainerPoint(m, lat, lng) ==
  [x |-> (m.size.x \div 2) + (lng - m.centre.lng) * m.ppu,
   y |-> (m.size.y \div 2) - (lat - m.centre.lat) * m.ppu]

\* map.getBounds(), with getNorth() .. getWest() as fields
getBounds(m) ==
  [north |-> m.centre.lat + (m.size.y \div 2) \div m.ppu,
   south |-> m.centre.lat - (m.size.y \div 2) \div m.ppu,
   east  |-> m.centre.lng + (m.size.x \div 2) \div m.ppu,
   west  |-> m.centre.lng - (m.size.x \div 2) \div m.ppu]

(***************************************************************************)
(* Math.cos and Math.sin on the heading table, times TrigScale.            *)
(***************************************************************************)
CosTable == <<5, 4, 3, 0, -3, -4, -5, -4, -3, 0, 3, 4>>
SinTable == <<0, 3, 4, 5, 4, 3, 0, -3, -4, -5, -4, -3>>

MathCos(d) == CosTable[(d % FullTurn) + 1]
MathSin(d) == SinTable[(d % FullTurn) + 1]

(***************************************************************************)
(* 3. latLngToWorld: project to container pixels, centre on the container  *)
(* midpoint, scale; the overlay plane is y = 0.                            *)
(***************************************************************************)
latLngToWorld(m, lat, lng) ==
  LET point == latLngToContainerPoint(m, lat, lng)
      containerSize == getSize(m)
  IN  [x |-> point.x - containerSize.x \div 2,
       y |-> 0,
       z |-> 0 - (point.y - containerSize.y \div 2)]

(***************************************************************************)
(* 4. createVehicle and the initial vehicles.                              *)
(***************************************************************************)
SeedOffsets ==
  << [lat |-> 0, lng |-> 0], [lat |-> 5, lng |-> 5],
     [lat |-> -5, lng |-> -5], [lat |-> 3, lng |-> 2] >>

SeedPositions ==
  [i \in 1 .. Len(SeedOffsets) |->
     [lat |-> InitialCentre.lat + SeedOffsets[i].lat,
      lng |-> InitialCentre.lng + SeedOffsets[i].lng]]

createVehicle(m, lat, lng, dir) ==
  [mesh |-> [position |-> latLngToWorld(m, lat, lng), rotationY |-> 0],
   lat |-> lat, lng |-> lng, speed |-> Speed, direction |-> dir]

Vehicles == 1 .. NumVehicles

(***************************************************************************)
(* 5. updateBabylonPositions: publish the bounds, re-project every vehicle *)
(***************************************************************************)
\* A faulty variant: the bounds are published but no vehicle is re-projected.
updateBabylonPositions_BoundsOnly(m) ==
  /\ bounds' = <<getBounds(m).north, getBounds(m).south,
                 getBounds(m).east, getBounds(m).west>>
  /\ vehicles' = vehicles

Reproject(m, v) ==
  [v EXCEPT !.mesh.position = latLngToWorld(m, v.lat, v.lng)]

BoundsArray(m) ==
  LET b == getBounds(m) IN <<b.north, b.south, b.east, b.west>>

updateBabylonPositions(m) ==
  /\ bounds' = BoundsArray(m)
  /\ vehicles' = [i \in Vehicles |-> Reproject(m, vehicles[i])]

(***************************************************************************)
(* 6. The render loop's body for one vehicle.                              *)
(***************************************************************************)
IsOutside(m, lat, lng) ==
  LET currentBounds == getBounds(m)
  IN  \/ lat > currentBounds.north
      \/ lat < currentBounds.south
      \/ lng > currentBounds.east
      \/ lng < currentBounds.west

\* A faulty variant: the longitude step takes the cosine too.
StepLng_Cos(v) == v.lng + (MathCos(v.direction) * v.speed) \div TrigScale

StepLat(v) == v.lat + (MathCos(v.direction) * v.speed) \div TrigScale
StepLng(v) == v.lng + (MathSin(v.direction) * v.speed) \div TrigScale

\* A faulty variant: a step that would leave the viewport is not taken.
StepVehicle_SkipWhenOutside(m, v) ==
  IF IsOutside(m, StepLat(v), StepLng(v))
  THEN [v EXCEPT !.direction = v.direction + HalfTurn,
                 !.mesh.rotationY = v.direction]
  ELSE [v EXCEPT !.lat = StepLat(v), !.lng = StepLng(v),
                 !.mesh.position = latLngToWorld(m, StepLat(v), StepLng(v)),
                 !.mesh.rotationY = v.direction]

\* A faulty variant: a crossing mirrors the heading about the north axis
\* instead of reversing it.
StepVehicle_Mirror(m, v) ==
  LET lat1 == StepLat(v)
      lng1 == StepLng(v)
      moved == [v EXCEPT !.lat = lat1, !.lng = lng1,
                         !.mesh.position = latLngToWorld(m, lat1, lng1),
                         !.mesh.rotationY = v.direction]
  IN  IF IsOutside(m, lat1, lng1)
      THEN [moved EXCEPT !.direction = FullTurn - v.direction]
      ELSE moved

StepVehicle(m, v) ==
  LET lat1 == StepLat(v)
      lng1 == StepLng(v)
      moved == [v EXCEPT !.lat = lat1, !.lng = lng1,
                         !.mesh.position = latLngToWorld(m, lat1, lng1),
                         !.mesh.rotationY = v.direction]
  IN  IF IsOutside(m, lat1, lng1)
      THEN [moved EXCEPT !.direction = v.direction + HalfTurn]
      ELSE moved

\* The run a vehicle is on: restarted at the stepped position on a crossing.
\* prev is where the vehicle was when the frame began, and at counts the view
\* changes the map had seen by then.
StepHist(m, v, h) ==
  LET frame == [prev |-> [lat |-> v.lat, lng |-> v.lng], at |-> mapEvents]
  IN  IF IsOutside(m, StepLat(v), StepLng(v))
      THEN [lat0 |-> StepLat(v), lng0 |-> StepLng(v),
            dir0 |-> v.direction + HalfTurn, n |-> 0,
            prev |-> frame.prev, at |-> frame.at]
      ELSE [h EXCEPT !.n = h.n + 1, !.prev = frame.prev, !.at = frame.at]

(***************************************************************************)
(* The effect: mount.                                                      *)
(***************************************************************************)
InitialZoom == 1
InitialSize == [x |-> 24, y |-> 16]

MountedMap == [centre |-> InitialCentre, ppu |-> InitialZoom, size |-> InitialSize]
MountedEngine == [size |-> InitialSize, running |-> TRUE, disposed |-> FALSE]
MountedListeners == {"move", "zoom", "moveend", "zoomend", "resize"}
AcquireOrder == <<"map", "engine", "scene">>

MountedVehicles(dirs) ==
  [i \in Vehicles |->
     createVehicle(MountedMap, SeedPositions[i].lat, SeedPositions[i].lng, dirs[i])]

MountedHist(dirs) ==
  [i \in Vehicles |->
     [lat0 |-> SeedPositions[i].lat, lng0 |-> SeedPositions[i].lng,
      dir0 |-> dirs[i], n |-> 0,
      prev |-> [lat |-> SeedPositions[i].lat, lng |-> SeedPositions[i].lng],
      at |-> 0]]

\* direction: Math.random() * Math.PI * 2, drawn here from the four axes and
\* one oblique heading in each quadrant
InitialHeadings == {0, 1, 3, 4, 6, 7, 9, 10}

Mount ==
  /\ phase = "initial"
  /\ \E dirs \in [Vehicles -> InitialHeadings] :
       /\ vehicles' = MountedVehicles(dirs)
       /\ hist' = MountedHist(dirs)
  /\ map' = MountedMap
  /\ bounds' = BoundsArray(MountedMap)
  /\ engine' = MountedEngine
  /\ acquired' = AcquireOrder
  /\ listeners' = MountedListeners
  /\ phase' = "mounted"
  /\ UNCHANGED <<released, frames, mapEvents, fetchVars, apiVars>>

(***************************************************************************)
(* Map events: the widget changes its view and calls the handler.          *)
(***************************************************************************)
MapMove ==
  /\ phase = "mounted"
  /\ "move" \in listeners
  /\ mapEvents < MaxMapEvents
  /\ \E c \in Centres :
       /\ c # map.centre
       /\ map' = [map EXCEPT !.centre = c]
       /\ updateBabylonPositions(map')
  /\ mapEvents' = mapEvents + 1
  /\ UNCHANGED <<phase, engine, listeners, acquired, released, frames, hist,
                 fetchVars, apiVars>>

MapZoom ==
  /\ phase = "mounted"
  /\ "zoom" \in listeners
  /\ mapEvents < MaxMapEvents
  /\ \E z \in Zooms :
       /\ z # map.ppu
       /\ map' = [map EXCEPT !.ppu = z]
       /\ updateBabylonPositions(map')
  /\ mapEvents' = mapEvents + 1
  /\ UNCHANGED <<phase, engine, listeners, acquired, released, frames, hist,
                 fetchVars, apiVars>>

\* handleResize
WindowResize ==
  /\ phase = "mounted"
  /\ "resize" \in listeners
  /\ mapEvents < MaxMapEvents
  /\ \E s \in Sizes :
       /\ s # map.size
       /\ map' = [map EXCEPT !.size = s]
       /\ engine' = [engine EXCEPT !.size = s]
       /\ updateBabylonPositions(map')
  /\ mapEvents' = mapEvents + 1
  /\ UNCHANGED <<phase, listeners, acquired, released, frames, hist,
                 fetchVars, apiVars>>

(***************************************************************************)
(* One render frame: every vehicle steps, then the scene renders.          *)
(***************************************************************************)
RenderFrame ==
  /\ phase = "mounted"
  /\ engine.running
  /\ frames < MaxFrames
  /\ vehicles' = [i \in Vehicles |-> StepVehicle(map, vehicles[i])]
  /\ hist' = [i \in Vehicles |-> StepHist(map, vehicles[i], hist[i])]
  /\ frames' = frames + 1
  /\ UNCHANGED <<phase, map, engine, bounds, listeners, acquired, released,
                 mapEvents, fetchVars, apiVars>>

(***************************************************************************)
(* The effect's cleanup: unmount.                                          *)
(***************************************************************************)
\* A faulty variant: the scene is never disposed.
CleanupOrder_NoScene == <<"map", "engine">>

CleanupOrder == <<"map", "scene", "engine">>

Unmount ==
  /\ phase = "mounted"
  /\ listeners' = {}
  /\ released' = released \o CleanupOrder
  /\ engine' = [engine EXCEPT !.running = FALSE, !.disposed = TRUE]
  /\ phase' = "unmounted"
  /\ UNCHANGED <<map, vehicles, bounds, acquired, frames, mapEvents, hist,
                 fetchVars, apiVars>>

(***************************************************************************)
(* JavaScript values that reach the route handlers, tagged by type.        *)
(***************************************************************************)
JsUndefined == [t |-> "undefined"]
JsNull == [t |-> "null"]
JsNaN == [t |-> "nan"]
JsNum(n) == [t |-> "num", v |-> n]
JsStr(chars) == [t |-> "str", v |-> chars]

\* !x
Falsy(x) ==
  \/ x.t \in {"undefined", "null", "nan"}
  \/ x.t = "num" /\ x.v = 0
  \/ x.t = "str" /\ x.v = <<>>

\* JSON.parse(JSON.stringify({k: x}))[k]: NaN is written as null, an
\* undefined member is left out
JsonRoundTrip(x) ==
  CASE x.t = "nan" -> JsNull
    [] x.t = "undefined" -> JsUndefined
    [] OTHER -> x

BoundsKeys == {"north", "south", "east", "west"}

JsonBody(o) == [k \in BoundsKeys |-> JsonRoundTrip(o[k])]

(***************************************************************************)
(* String(n) and parseFloat(s) on decimal integers; a string is a sequence *)
(* of one-character strings.                                               *)
(***************************************************************************)
DigitChars == <<"0", "1", "2", "3", "4", "5", "6", "7", "8", "9">>

RECURSIVE DigitsOf(_)
DigitsOf(n) ==
  IF n < 10 THEN <<DigitChars[n + 1]>>
  ELSE DigitsOf(n \div 10) \o <<DigitChars[(n % 10) + 1]>>

NumberToString(n) == IF n < 0 THEN <<"-">> \o DigitsOf(0 - n) ELSE DigitsOf(n)

IsDigit(c) == \E d \in 1 .. 10 : DigitChars[d] = c
DigitValue(c) == (CHOOSE d \in 1 .. 10 : DigitChars[d] = c) - 1

\* the value of the longest prefix of digits of s, from acc; -1 when s
\* starts with no digit and none was read
RECURSIVE ParseDigits(_, _, _)
ParseDigits(s, acc, seen) ==
  IF s # <<>> /\ IsDigit(Head(s))
  THEN ParseDigits(Tail(s), acc * 10 + DigitValue(Head(s)), TRUE)
  ELSE IF seen THEN acc ELSE -1

\* A faulty variant: the sign is dropped.
parseFloat_Unsigned(s) ==
  LET mag == ParseDigits(IF s # <<>> /\ Head(s) \in {"-", "+"} THEN Tail(s) ELSE s,
                         0, FALSE)
  IN  IF mag < 0 THEN JsNaN ELSE JsNum(mag)

parseFloat(s) ==
  LET neg == s # <<>> /\ Head(s) = "-"
      rest == IF s # <<>> /\ Head(s) \in {"-", "+"} THEN Tail(s) ELSE s
      mag == ParseDigits(rest, 0, FALSE)
  IN  IF mag < 0 THEN JsNaN
      ELSE JsNum(IF neg THEN 0 - mag ELSE mag)

(***************************************************************************)
(* The upstream geodata service: what it may answer to one query.          *)
(***************************************************************************)
NoTags == [highway |-> "", name |-> "", maxspeed |-> "", lanes |-> ""]
Tags(highway, name) == [t |-> "obj", v |-> [NoTags EXCEPT !.highway = highway, !.name = name]]
Geometry(points) == [t |-> "arr", v |-> points]
Node(lat, lon) == [lat |-> lat, lon |-> lon]

UpstreamSamples ==
  << \* one primary way with two points, and a node
     << [type |-> "way", id |-> 1, tags |-> Tags("primary", "Sejong-daero"),
         geometry |-> Geometry(<<Node(12, 16), Node(13, 17)>>)],
        [type |-> "node", id |-> 2, tags |-> JsUndefined, geometry |-> JsUndefined] >>,
     \* a way with no tags, a way with a single point, a way of a class the
     \* style table does not know, a way without geometry, and a way whose
     \* class is the name of a member every object inherits
     << [type |-> "way", id |-> 3, tags |-> JsUndefined,
         geometry |-> Geometry(<<Node(10, 14), Node(11, 14), Node(11, 15)>>)],
        [type |-> "way", id |-> 4, tags |-> Tags("residential", ""),
         geometry |-> Geometry(<<Node(9, 9)>>)],
        [type |-> "way", id |-> 5, tags |-> Tags("track", ""),
         geometry |-> Geometry(<<Node(8, 8), Node(8, 9)>>)],
        [type |-> "way", id |-> 6, tags |-> Tags("service", ""),
         geometry |-> JsUndefined],
        [type |-> "way", id |-> 7, tags |-> Tags("constructor", ""),
         geometry |-> Geometry(<<Node(7, 7), Node(7, 8)>>)] >>,
     \* nothing in the box
     << >> >>

UpstreamOutcomes ==
  { [kind |-> "ok", elements |-> UpstreamSamples[k]] : k \in 1 .. Len(UpstreamSamples) }
    \cup { [kind |-> "http_error", elements |-> <<>>],
           [kind |-> "network_error", elements |-> <<>>] }

(***************************************************************************)
(* POST /api/roads                                                         *)
(***************************************************************************)
OverpassTimeout == 25

HighwayFilter ==
  {"motorway", "trunk", "primary", "secondary", "tertiary", "unclassified",
   "residential", "service", "living_street"}

\* `x || d` on strings
OrElse(x, d) == IF x = "" THEN d ELSE x

TagsOrEmpty(tags) == IF tags.t = "obj" THEN tags.v ELSE NoTags

IsWayWithGeometry(element) ==
  element.type = "way" /\ element.geometry.t # "undefined"

ToRoad(way) ==
  [id |-> way.id,
   type |-> OrElse(TagsOrEmpty(way.tags).highway, "unknown"),
   name |-> OrElse(TagsOrEmpty(way.tags).name, ""),
   coordinates |-> [k \in 1 .. Len(way.geometry.v) |->
                     <<way.geometry.v[k].lat, way.geometry.v[k].lon>>],
   tags |-> TagsOrEmpty(way.tags)]

NormalizeRoads(elements) ==
  LET ways == SelectSeq(elements, IsWayWithGeometry)
  IN  [k \in 1 .. Len(ways) |-> ToRoad(ways[k])]

MissingBounds(o) ==
  Falsy(o.north) \/ Falsy(o.south) \/ Falsy(o.east) \/ Falsy(o.west)

\* A faulty variant: an empty box (north = south or east = west) passes.
InvalidBounds_Strict(north, south, east, west) == north < south \/ east < west

InvalidBounds(north, south, east, west) == north <= south \/ east <= west

OverpassQuery(north, south, east, west) ==
  [timeout |-> OverpassTimeout, way |-> HighwayFilter,
   bbox |-> <<south, west, north, east>>]

\* The handler's answer and the upstream queries it issued on the way.
POST(body, upstream) ==
  IF MissingBounds(body)
  THEN [status |-> 400, error |-> "bounds required", queries |-> <<>>, roads |-> <<>>]
  ELSE
    LET north == body.north.v
        south == body.south.v
        east == body.east.v
        west == body.west.v
        query == OverpassQuery(north, south, east, west)
    IN  IF InvalidBounds(north, south, east, west)
        THEN [status |-> 400, error |-> "invalid bounds", queries |-> <<>>,
              roads |-> <<>>]
        ELSE IF upstream.kind # "ok"
        THEN [status |-> 500, error |-> "failed to fetch roads",
              queries |-> <<query>>, roads |-> <<>>]
        ELSE [status |-> 200, error |-> "", queries |-> <<query>>,
              roads |-> NormalizeRoads(upstream.elements)]

(***************************************************************************)
(* GET /api/roads?north=&south=&east=&west=                                *)
(***************************************************************************)
\* searchParams.get(k) || "", as characters
ParamOrEmpty(p) == IF p.t = "str" THEN p.v ELSE <<>>

GET(searchParams, upstream) ==
  LET parsed == [k \in BoundsKeys |-> parseFloat(ParamOrEmpty(searchParams[k]))]
  IN  IF MissingBounds(parsed)
      THEN [status |-> 400, error |-> "query parameters required",
            queries |-> <<>>, roads |-> <<>>]
      ELSE POST(JsonBody(parsed), upstream)

(***************************************************************************)
(* The route handlers' clients: a request carrying four values, sent as a  *)
(* POST body or as a GET query string.                                     *)
(***************************************************************************)
ApiNone == [status |-> 0, error |-> "", queries |-> <<>>, roads |-> <<>>]

Coordinates == {7 * n : n \in (0 - MaxCoord) .. MaxCoord}

\* each of the four values: left out, or a number
RequestValues == {JsUndefined} \cup {JsNum(n) : n \in Coordinates}

\* the request body { north, south, east, west } as the handler reads it
BodyOf(vals) == JsonBody(vals)

\* the query string's parameters: searchParams.get gives null for an absent one
SearchParamsOf(vals) ==
  [k \in BoundsKeys |->
     IF vals[k].t = "undefined" THEN JsNull ELSE JsStr(NumberToString(vals[k].v))]

ApiIdle ==
  /\ apiIn = [sent |-> FALSE]
  /\ postOut = ApiNone
  /\ getOut = ApiNone

HandlePOST ==
  /\ apiIn.sent
  /\ postOut.status = 0
  /\ postOut' = POST(BodyOf(apiIn.vals), apiIn.upstream)
  /\ UNCHANGED <<simVars, fetchVars, apiIn, getOut>>

HandleGET ==
  /\ apiIn.sent
  /\ getOut.status = 0
  /\ getOut' = GET(SearchParamsOf(apiIn.vals), apiIn.upstream)
  /\ UNCHANGED <<simVars, fetchVars, apiIn, postOut>>

(***************************************************************************)
(* Road display: getRoadStyle and the polylines of one response.           *)
(***************************************************************************)
NoLayer == [id |-> 0, lines |-> <<>>]

\* Names that `styles[type]` finds on the prototype of the object literal:
\* the lookup is not limited to the literal's own nine keys.
ObjectPrototypeMembers ==
  {"constructor", "toString", "toLocaleString", "valueOf", "hasOwnProperty",
   "isPrototypeOf", "propertyIsEnumerable", "__proto__"}

\* What the lookup gives for such a name: a function (or the prototype), which
\* is truthy and has neither a color nor a weight; 0 stands for no weight.
InheritedMember == [color |-> Undefined, weight |-> 0]

getRoadStyle(type) ==
  CASE type = "motorway" -> [color |-> "#e66465", weight |-> 6]
    [] type = "trunk" -> [color |-> "#f93", weight |-> 5]
    [] type = "primary" -> [color |-> "#fcd53c", weight |-> 4]
    [] type = "secondary" -> [color |-> "#9ed485", weight |-> 3]
    [] type = "tertiary" -> [color |-> "#87ceeb", weight |-> 2]
    [] type = "residential" -> [color |-> "#cccccc", weight |-> 2]
    [] type = "service" -> [color |-> "#e0e0e0", weight |-> 1]
    [] type = "living_street" -> [color |-> "#d3d3d3", weight |-> 1]
    [] type = "unclassified" -> [color |-> "#b8b8b8", weight |-> 1]
    [] type \in ObjectPrototypeMembers -> InheritedMember
    [] OTHER -> [color |-> "#999999", weight |-> 1]

HasLine(road) == Len(road.coordinates) > 1

ToPolyline(road) ==
  [latlngs |-> road.coordinates, style |-> getRoadStyle(road.type),
   popup |-> [title |-> OrElse(road.name, "unnamed road"), type |-> road.type,
              id |-> road.id]]

NewRoadsLayer(id, roads) ==
  LET drawn == SelectSeq(roads, HasLine)
  IN  [id |-> id, lines |-> [k \in 1 .. Len(drawn) |-> ToPolyline(drawn[k])]]

\* A faulty variant: the previous layer group stays on the map.
RemoveOldLayer_Keep(layers, old) == layers

\* if (roadsLayerGroup && mapRef.current) mapRef.current.removeLayer(roadsLayerGroup)
RemoveOldLayer(layers, old) == IF old.id # 0 THEN layers \ {old} ELSE layers

(***************************************************************************)
(* fetchRoadsFromOSM: the request the component sends and how it reads the *)
(* answer.                                                                 *)
(***************************************************************************)
RequestBody(b) ==
  JsonBody([north |-> JsNum(b[1]), south |-> JsNum(b[2]),
            east |-> JsNum(b[3]), west |-> JsNum(b[4])])

\* response.ok
ResponseOk(status) == status >= 200 /\ status <= 299

\* What the awaited call gives handleFetchRoads: the data, or a thrown error.
fetchRoadsFromOSM(b, net) ==
  IF net.kind = "network_error"
  THEN [thrown |-> TRUE, roads |-> <<>>]
  ELSE LET response == POST(RequestBody(b), net.upstream)
       IN  IF ~ResponseOk(response.status)
           THEN [thrown |-> TRUE, roads |-> <<>>]
           ELSE [thrown |-> FALSE, roads |-> response.roads]

NetworkOutcomes ==
  { [kind |-> "network_error", upstream |-> [kind |-> "none", elements |-> <<>>]] }
    \cup { [kind |-> "answered", upstream |-> up] : up \in UpstreamOutcomes }

(***************************************************************************)
(* handleFetchRoads, up to its await: the button's click.                  *)
(***************************************************************************)
FetchIdle ==
  /\ isLoadingRoads = FALSE
  /\ roadData = <<>>
  /\ roadsLayerGroup = NoLayer
  /\ mapLayers = {}
  /\ inflight = {}
  /\ alerts = 0
  /\ requests = 0
  /\ lastResult = "idle"
  /\ lastOk = [id |-> 0, roads |-> <<>>, replaced |-> {}, elements |-> <<>>]

\* disabled={isLoadingRoads || !bounds}
ButtonDisabled == isLoadingRoads \/ bounds = <<>>

FetchClick ==
  /\ phase = "mounted"
  /\ ~ButtonDisabled
  /\ requests < MaxFetches
  /\ bounds # <<>>
  /\ isLoadingRoads' = TRUE
  /\ requests' = requests + 1
  /\ inflight' = inflight \cup
       { [id |-> requests + 1, bounds |-> bounds, roadsLayerGroup |-> roadsLayerGroup,
          shown |-> mapLayers, listed |-> roadData] }
  /\ UNCHANGED <<simVars, apiVars, roadData, roadsLayerGroup, mapLayers, alerts,
                 lastResult, lastOk>>

(***************************************************************************)
(* handleFetchRoads, from its await on: the response arrives.              *)
(***************************************************************************)
\* A faulty variant: fetchRoadsFromOSM alerts as well as its caller.
AlertsAfterFailure_Twice(n) == n + 2

\* catch: alert(...)
AlertsAfterFailure(n) == n + 1

\* A faulty variant: the flag is cleared on the success path only.
SettleLoading_OnSuccessOnly(thrown) == thrown

\* finally { setIsLoadingRoads(false) }
SettleLoading(thrown) == FALSE

FetchResolve ==
  /\ phase = "mounted"
  /\ \E f \in inflight, net \in NetworkOutcomes :
       LET response == fetchRoadsFromOSM(f.bounds, net)
           newRoadsLayer == NewRoadsLayer(f.id, response.roads)
       IN  /\ inflight' = inflight \ {f}
           /\ IF response.thrown
              THEN /\ alerts' = AlertsAfterFailure(alerts)
                   /\ lastResult' = "error"
                   /\ UNCHANGED <<roadData, roadsLayerGroup, mapLayers, lastOk>>
              ELSE /\ roadData' = response.roads
                   /\ mapLayers' = RemoveOldLayer(mapLayers, f.roadsLayerGroup)
                                     \cup {newRoadsLayer}
                   /\ roadsLayerGroup' = newRoadsLayer
                   /\ lastResult' = "displayed"
                   /\ lastOk' = [id |-> f.id, roads |-> response.roads,
                                 replaced |-> mapLayers,
                                 elements |-> net.upstream.elements]
                   /\ UNCHANGED alerts
           /\ isLoadingRoads' = SettleLoading(response.thrown)
  /\ UNCHANGED <<simVars, apiVars, requests>>

Init ==
  /\ phase = "initial"
  /\ map = Undefined
  /\ engine = Undefined
  /\ vehicles = <<>>
  /\ bounds = <<>>
  /\ listeners = {}
  /\ acquired = <<>>
  /\ released = <<>>
  /\ frames = 0
  /\ mapEvents = 0
  /\ hist = <<>>
  /\ FetchIdle
  /\ ApiIdle

Next ==
  \/ Mount
  \/ MapMove
  \/ MapZoom
  \/ WindowResize
  \/ RenderFrame
  \/ Unmount

Spec == Init /\ [][Next]_vars

(***************************************************************************)
(* The road fetch, over the component's mounted lifetime: the state right  *)
(* after the effect ran, then clicks, responses and view changes.          *)
(***************************************************************************)
InitFetch ==
  /\ phase = "mounted"
  /\ \E dirs \in [Vehicles -> {0}] :
       /\ map = MountedMap
       /\ vehicles = MountedVehicles(dirs)
       /\ hist = MountedHist(dirs)
  /\ bounds = BoundsArray(MountedMap)
  /\ engine = MountedEngine
  /\ listeners = MountedListeners
  /\ acquired = AcquireOrder
  /\ released = <<>>
  /\ frames = 0
  /\ mapEvents = 0
  /\ FetchIdle
  /\ ApiIdle

NextFetch ==
  \/ FetchClick
  \/ FetchResolve
  \/ MapMove
  \/ MapZoom
  \/ WindowResize

SpecFetch == InitFetch /\ [][NextFetch]_vars

(***************************************************************************)
(* The route handlers, on every request drawn from the bounded values.     *)
(***************************************************************************)
InitApi ==
  /\ phase = "initial"
  /\ map = Undefined
  /\ engine = Undefined
  /\ vehicles = <<>>
  /\ bounds = <<>>
  /\ listeners = {}
  /\ acquired = <<>>
  /\ released = <<>>
  /\ frames = 0
  /\ mapEvents = 0
  /\ hist = <<>>
  /\ FetchIdle
  /\ \E vals \in [BoundsKeys -> RequestValues], up \in UpstreamOutcomes :
       apiIn = [sent |-> TRUE, vals |-> vals, upstream |-> up]
  /\ postOut = ApiNone
  /\ getOut = ApiNone

NextApi ==
  \/ HandlePOST
  \/ HandleGET

SpecApi == InitApi /\ [][NextApi]_vars

(***************************************************************************)
(* C1.  After every callback (render frame, pan, zoom, resize) each        *)
(* vehicle's mesh sits at the projection of its current lat/lng under the  *)
(* map's current view: no position projected from an older view or an      *)
(* older lat/lng survives a callback.                                      *)
(***************************************************************************)
C1_MeshAtCurrentProjection ==
  phase # "initial" =>
    \A i \in Vehicles :
      LET v == vehicles[i]
          px == (map.size.x \div 2) + (v.lng - map.centre.lng) * map.ppu
          py == (map.size.y \div 2) - (v.lat - map.centre.lat) * map.ppu
      IN  v.mesh.position =
            [x |-> px - map.size.x \div 2, y |-> 0, z |-> 0 - (py - map.size.y \div 2)]

\* Reached: frames and view changes have both happened, and some vehicle is
\* drawn away from where it was created.
C1_Witness ==
  /\ phase = "mounted"
  /\ frames >= 2
  /\ mapEvents >= 2
  /\ map.ppu # InitialZoom
  /\ map.centre # InitialCentre
  /\ \E i \in Vehicles :
       vehicles[i].mesh.position #
         [x |-> SeedOffsets[i].lng, y |-> 0, z |-> SeedOffsets[i].lat]

(***************************************************************************)
(* C2.  In a render frame, every vehicle moves to its stepped position     *)
(* (lat + cos(direction)*speed, lng + sin(direction)*speed); its direction *)
(* grows by exactly pi when that position is outside the current viewport  *)
(* on any of the four edges, and is unchanged when it is inside.           *)
(***************************************************************************)
C2_BounceOnCrossing ==
  [][ frames' = frames + 1 =>
        \A i \in Vehicles :
          LET v == vehicles[i]
              w == vehicles'[i]
              lat1 == v.lat + (MathCos(v.direction) * v.speed) \div TrigScale
              lng1 == v.lng + (MathSin(v.direction) * v.speed) \div TrigScale
              b == getBounds(map)
              out == \/ lat1 > b.north \/ lat1 < b.south
                     \/ lng1 > b.east \/ lng1 < b.west
          IN  /\ w.lat = lat1
              /\ w.lng = lng1
              /\ out => w.direction = v.direction + HalfTurn
              /\ ~out => w.direction = v.direction ]_vars

\* Reached: in the last frame one vehicle crossed an edge and was turned
\* round, and another stayed inside.
C2_Witness ==
  /\ phase = "mounted"
  /\ frames >= 1
  /\ \E i, j \in Vehicles :
       /\ hist[i].n = 0
       /\ vehicles[i].direction = vehicles[i].mesh.rotationY + HalfTurn
       /\ hist[j].n >= 1
       /\ vehicles[j].direction = vehicles[j].mesh.rotationY

(***************************************************************************)
(* C3.  After N consecutive frames in which a vehicle did not cross the    *)
(* viewport's edge it is exactly N constant steps from where the run       *)
(* began, with direction and speed unchanged, whatever pans, zooms and     *)
(* resizes came in between.                                                *)
(***************************************************************************)
C3_ClosedFormRun ==
  phase # "initial" =>
    \A i \in Vehicles :
      LET v == vehicles[i]
          h == hist[i]
      IN  /\ v.direction = h.dir0
          /\ v.speed = Speed
          /\ v.lat = h.lat0 + h.n * ((MathCos(h.dir0) * Speed) \div TrigScale)
          /\ v.lng = h.lng0 + h.n * ((MathSin(h.dir0) * Speed) \div TrigScale)

\* Reached: a run of at least two frames with view changes in between.
C3_Witness ==
  /\ phase = "mounted"
  /\ mapEvents >= 1
  /\ \E i \in Vehicles :
       /\ hist[i].n >= 2
       /\ <<vehicles[i].lat, vehicles[i].lng>> # <<hist[i].lat0, hist[i].lng0>>

Reverse(s) == [k \in 1 .. Len(s) |-> s[Len(s) + 1 - k]]

C4_AbsentOrZero(x) == x.t = "undefined" \/ (x.t = "num" /\ x.v = 0)

C4_Missing(v) == \E k \in BoundsKeys : C4_AbsentOrZero(v[k])

C4_Inverted(v) ==
  /\ \A k \in BoundsKeys : v[k].t = "num"
  /\ v["north"].v <= v["south"].v \/ v["east"].v <= v["west"].v

(***************************************************************************)
(* C4.  POST /api/roads answers 400 with an error message, and issues no   *)
(* upstream query, for every body in which north, south, east or west is   *)
(* absent or zero, or in which north <= south or east <= west; an upstream *)
(* query is issued only for bodies that pass both checks.                  *)
(***************************************************************************)
C4_PostRejectsBadBounds ==
  postOut.status # 0 =>
    /\ (C4_Missing(apiIn.vals) \/ C4_Inverted(apiIn.vals)) =>
         /\ postOut.status = 400
         /\ postOut.error # ""
         /\ postOut.queries = <<>>
    /\ postOut.queries # <<>> =>
         ~C4_Missing(apiIn.vals) /\ ~C4_Inverted(apiIn.vals)

\* Reached: a body with four non-zero numbers and north = south was answered
\* 400, with no upstream query.
C4_Witness ==
  /\ postOut.status = 400
  /\ ~C4_Missing(apiIn.vals)
  /\ apiIn.vals["north"].v = apiIn.vals["south"].v
  /\ apiIn.vals["east"].v > apiIn.vals["west"].v
  /\ postOut.queries = <<>>

(***************************************************************************)
(* C9.  For the same four values (each absent, zero or a number) and the   *)
(* same upstream behaviour, GET /api/roads and POST /api/roads decide the  *)
(* same way: the same status, the same upstream query, the same roads.     *)
(***************************************************************************)
C9_GetEquivalentToPost ==
  (postOut.status # 0 /\ getOut.status # 0) =>
    /\ getOut.status = postOut.status
    /\ getOut.queries = postOut.queries
    /\ getOut.roads = postOut.roads
    /\ (getOut.status = 400) = (postOut.status = 400)

\* Reached: both handlers accepted a request with negative coordinates and
\* sent the upstream query.
C9_Witness ==
  /\ postOut.status = 200
  /\ getOut.status = 200
  /\ apiIn.vals["south"].v < 0
  /\ apiIn.vals["west"].v < 0
  /\ Len(getOut.queries) = 1
  /\ Len(getOut.roads) > 0

(***************************************************************************)
(* C5.  Once a fetch has succeeded, the map shows exactly one road layer:  *)
(* the one drawn from the last successful response, with one polyline for  *)
(* each of its roads of two or more points.  A second successful fetch     *)
(* leaves nothing of the first one's layer on the map.                     *)
(***************************************************************************)
C5_ReplaceNotMerge ==
  lastOk.id # 0 =>
    /\ \A l \in mapLayers : l.id = lastOk.id
    /\ mapLayers = {roadsLayerGroup}
    /\ lastOk.replaced \cap mapLayers = {}
    /\ roadData = lastOk.roads
    /\ Len(roadsLayerGroup.lines) =
         Cardinality({k \in 1 .. Len(lastOk.roads) :
                        Len(lastOk.roads[k].coordinates) >= 2})
    /\ \A k \in 1 .. Len(roadsLayerGroup.lines) :
         \E j \in 1 .. Len(lastOk.roads) :
           roadsLayerGroup.lines[k].latlngs = lastOk.roads[j].coordinates

\* Reached: the second fetch succeeded and replaced a first layer that had
\* polylines on it.
C5_Witness ==
  /\ lastOk.id = 2
  /\ inflight = {}
  /\ \E l \in lastOk.replaced : Len(l.lines) > 0
  /\ Len(roadsLayerGroup.lines) > 0

(***************************************************************************)
(* The button is disabled while a fetch is outstanding, so no two road     *)
(* fetches are ever in flight together (the case C6 is about).             *)
(***************************************************************************)
AtMostOneFetchInFlight ==
  /\ Cardinality(inflight) <= 1
  /\ isLoadingRoads = (inflight # {})

\* The UI state of the road fetch: loading while isLoadingRoads is set, else
\* how the last fetch ended.
UiState == IF isLoadingRoads THEN "loading" ELSE lastResult

UiTransitions ==
  { <<"idle", "loading">>, <<"loading", "displayed">>, <<"loading", "error">>,
    <<"displayed", "loading">>, <<"error", "loading">> }

(***************************************************************************)
(* C7.  The road-fetch UI state moves only idle -> loading, loading ->     *)
(* displayed, loading -> error, displayed -> loading, error -> loading: a  *)
(* request always enters loading, a resolved fetch leaves it (success to   *)
(* displayed, failure to error), and the UI is never loading with no fetch *)
(* outstanding.                                                            *)
(***************************************************************************)
C7_UiStateMachine ==
  [][ /\ UiState' # UiState => <<UiState, UiState'>> \in UiTransitions
      /\ requests' > requests => UiState' = "loading"
      /\ \A f \in inflight \ inflight' :
           /\ UiState' \in {"displayed", "error"}
           /\ alerts' > alerts => UiState' = "error"
           /\ roadsLayerGroup'.id = f.id => UiState' = "displayed"
      /\ inflight' = {} => UiState' # "loading" ]_vars

\* Reached: idle, loading, error, loading, displayed.
C7_Witness ==
  /\ requests = 2
  /\ alerts = 1
  /\ lastOk.id = 2
  /\ UiState = "displayed"

(***************************************************************************)
(* C8.  A failed road fetch (network error or a non-2xx answer) raises     *)
(* exactly one alert, sends no further request, and leaves the road layer  *)
(* on the map and the road list exactly as they were when the fetch        *)
(* started; nothing else raises an alert.                                  *)
(***************************************************************************)
C8_FailureAlertsOnceKeepsDisplay ==
  [][ /\ \A f \in inflight \ inflight' :
           lastResult' = "error" /\ roadsLayerGroup'.id # f.id =>
             /\ alerts' = alerts + 1
             /\ requests' = requests
             /\ inflight' = inflight \ {f}
             /\ mapLayers' = f.shown
             /\ roadData' = f.listed
             /\ roadsLayerGroup' = f.roadsLayerGroup
      /\ alerts' # alerts => inflight' # inflight /\ lastResult' = "error" ]_vars

\* Reached: a fetch failed while roads of an earlier fetch were shown; they
\* are still shown and one alert was raised.
C8_Witness ==
  /\ lastResult = "error"
  /\ alerts = 1
  /\ requests = 2
  /\ inflight = {}
  /\ \E l \in mapLayers : Len(l.lines) > 0
  /\ Len(roadData) > 0

(***************************************************************************)
(* C12.  At the end of every render frame the rotation of every vehicle's  *)
(* mesh equals the vehicle's direction, also on a frame in which the       *)
(* boundary check turned the vehicle round.  The loop writes the rotation  *)
(* before the boundary check, so a frame that turns a vehicle round leaves *)
(* the mesh at the direction the vehicle had before the turn.              *)
(***************************************************************************)
C12_RotationIsDirection ==
  frames >= 1 =>
    \A i \in Vehicles : vehicles[i].mesh.rotationY = vehicles[i].direction

(***************************************************************************)
(* C13.  While the viewport is left unchanged, a vehicle that was inside   *)
(* it is never outside it at the end of two consecutive render frames: if  *)
(* a frame that began with the vehicle inside ended with it outside, and   *)
(* no pan, zoom or resize has come since that frame began, the next frame  *)
(* puts the vehicle back where it was before the crossing, inside the      *)
(* viewport.  In a run with no view change at all, no vehicle is outside   *)
(* at the end of two consecutive frames.                                   *)
(***************************************************************************)
C13_BackInsideNextFrame ==
  [][ (frames >= 1 /\ frames' = frames + 1) =>
        \A i \in Vehicles :
          LET v == vehicles[i]
              w == vehicles'[i]
              h == hist[i]
              b == getBounds(map)
              Out(lat, lng) == \/ lat > b.north \/ lat < b.south
                               \/ lng > b.east \/ lng < b.west
          IN  /\ (h.at = mapEvents /\ Out(v.lat, v.lng)
                    /\ ~Out(h.prev.lat, h.prev.lng))
                 => (w.lat = h.prev.lat /\ w.lng = h.prev.lng
                       /\ ~Out(w.lat, w.lng))
              /\ (mapEvents = 0 /\ Out(v.lat, v.lng))
                 => ~Out(w.lat, w.lng) ]_vars

\* Reached: with the view never changed, a vehicle crossed an edge in one
\* frame and the next frame has put it back inside, where it came from.
C13_Witness ==
  /\ phase = "mounted"
  /\ mapEvents = 0
  /\ frames >= 2
  /\ \E i \in Vehicles :
       /\ IsOutside(map, hist[i].prev.lat, hist[i].prev.lng)
       /\ ~IsOutside(map, vehicles[i].lat, vehicles[i].lng)
       /\ hist[i].n = 1

(***************************************************************************)
(* C11.  Every upstream element of type way that carries geometry yields   *)
(* exactly one road, whose type is the way's highway class ("unknown" if   *)
(* it has none) and whose coordinates are the way's geometry points in     *)
(* their order; and every polyline drawn for a road has the color and the  *)
(* weight of the style table's entry for the road's type, or the default   *)
(* (#999999, weight 1) when the type is not a key of the table.            *)
(***************************************************************************)
C11_StyleTable ==
  [motorway |-> [color |-> "#e66465", weight |-> 6],
   trunk |-> [color |-> "#f93", weight |-> 5],
   primary |-> [color |-> "#fcd53c", weight |-> 4],
   secondary |-> [color |-> "#9ed485", weight |-> 3],
   tertiary |-> [color |-> "#87ceeb", weight |-> 2],
   residential |-> [color |-> "#cccccc", weight |-> 2],
   service |-> [color |-> "#e0e0e0", weight |-> 1],
   living_street |-> [color |-> "#d3d3d3", weight |-> 1],
   unclassified |-> [color |-> "#b8b8b8", weight |-> 1]]

C11_RoadPerWayStyledByType ==
  lastOk.id # 0 =>
    LET Carries(e) == e.type = "way" /\ e.geometry.t = "arr"
        ways == SelectSeq(lastOk.elements, Carries)
        roads == lastOk.roads
        Class(w) == IF w.tags.t = "obj" /\ w.tags.v.highway # ""
                    THEN w.tags.v.highway ELSE "unknown"
        Styled(type) == IF type \in DOMAIN C11_StyleTable
                        THEN C11_StyleTable[type]
                        ELSE [color |-> "#999999", weight |-> 1]
    IN  /\ Len(roads) = Len(ways)
        /\ \A k \in 1 .. Len(ways) :
             /\ roads[k].id = ways[k].id
             /\ roads[k].type = Class(ways[k])
             /\ Len(roads[k].coordinates) = Len(ways[k].geometry.v)
             /\ \A j \in 1 .. Len(ways[k].geometry.v) :
                  roads[k].coordinates[j] =
                    <<ways[k].geometry.v[j].lat, ways[k].geometry.v[j].lon>>
        /\ \A n \in 1 .. Len(roadsLayerGroup.lines) :
             \E k \in 1 .. Len(roads) :
               /\ roadsLayerGroup.lines[n].popup.id = roads[k].id
               /\ roadsLayerGroup.lines[n].latlngs = roads[k].coordinates
               /\ roadsLayerGroup.lines[n].style.color = Styled(roads[k].type).color
               /\ roadsLayerGroup.lines[n].style.weight = Styled(roads[k].type).weight

=============================================================================
